---- MODULE Spec2Model ----
(***************************************************************************)
(* A model of timeclock.py (ShayHill/timeclock): the timestamp codec, the  *)
(* entry interpreter, the day-file store, the clock-state resolver, the    *)
(* clock-in / clock-out transitions and the multi-clock coordinator.       *)
(*                                                                         *)
(* Conventions.                                                            *)
(*  - A Python str is a sequence of one-character strings; the fixed text  *)
(*    of a report line is kept as one element (it is never inspected).     *)
(*  - A datetime is the number of minutes since 0001-01-01 00:00 of the    *)
(*    proleptic Gregorian calendar (date.toordinal() - 1) * 1440 + minute  *)
(*    of the day; a timedelta is a number of minutes.  The program only    *)
(*    ever sees times through "%y%m%d %H:%M", so seconds never matter.     *)
(*  - A text file is the sequence of its lines (what readlines() yields,   *)
(*    without the line ends); a directory is a function from the stems of  *)
(*    the files it holds to their contents.                                *)
(***************************************************************************)
EXTENDS Integers, Sequences, FiniteSets, TLC

(***************************************************************************)
(* Calendar arithmetic of datetime (CPython's _ymd2ord and _ord2ymd).      *)
(***************************************************************************)
MinutesPerDay == 24 * 60

IsLeap(y) == (y % 4 = 0) /\ ((y % 100 # 0) \/ (y % 400 = 0))

DaysBeforeYear(y) ==
    LET p == y - 1 IN p * 365 + (p \div 4) - (p \div 100) + (p \div 400)

DaysInMonth(y, m) ==
    IF m = 2 THEN (IF IsLeap(y) THEN 29 ELSE 28)
    ELSE IF m \in {4, 6, 9, 11} THEN 30 ELSE 31

\* _DAYS_BEFORE_MONTH: the days before the first of each month of a common year
DAYS_BEFORE_MONTH == <<0, 31, 59, 90, 120, 151, 181, 212, 243, 273, 304, 334>>

\* _days_before_month
DaysBeforeMonth(y, m) == DAYS_BEFORE_MONTH[m] + (IF m > 2 /\ IsLeap(y) THEN 1 ELSE 0)

\* date(y, m, d).toordinal()
Ymd2Ord(y, m, d) == DaysBeforeYear(y) + DaysBeforeMonth(y, m) + d

\* date.fromordinal(n) as <<year, month, day>>
Ord2Ymd(n) ==
    LET n0   == n - 1
        n400 == n0 \div 146097
        r400 == n0 % 146097
        n100 == r400 \div 36524
        r100 == r400 % 36524
        n4   == r100 \div 1461
        r4   == r100 % 1461
        n1   == r4 \div 365
        r1   == r4 % 365
        y    == n400 * 400 + n100 * 100 + n4 * 4 + n1 + 1
    IN  IF n1 = 4 \/ n100 = 4
        THEN <<y - 1, 12, 31>>
        ELSE LET guess == (r1 + 50) \div 32
                 m     == IF DaysBeforeMonth(y, guess) > r1 THEN guess - 1 ELSE guess
             IN  <<y, m, r1 - DaysBeforeMonth(y, m) + 1>>

\* datetime(y, m, d, H, M)
DateTime(y, m, d, H, M) == (Ymd2Ord(y, m, d) - 1) * MinutesPerDay + H * 60 + M

(***************************************************************************)
(* Format datetime objects as strings.                                     *)
(***************************************************************************)
Digits == <<"0", "1", "2", "3", "4", "5", "6", "7", "8", "9">>

DigitChars == {Digits[i] : i \in 1..10}

DigitValues == [c \in DigitChars |-> (CHOOSE i \in 1..10 : Digits[i] = c) - 1]

\* int() of a decimal digit
DigitVal(c) == DigitValues[c]

\* "%02d" of a number in 0..99
TwoDigits(n) == <<Digits[(n \div 10) + 1], Digits[(n % 10) + 1]>>

\* int() of two decimal digits
TwoDigitVal(s, i) == DigitVal(s[i]) * 10 + DigitVal(s[i + 1])

\* A faulty "%y": every value is a year of this century
year_of_this_century(yy) == 2000 + yy

\* strptime's "%y": values 69..99 are 1969..1999, values 0..68 are 2000..2068
YearOfYY(yy) == IF yy >= 69 THEN 1900 + yy ELSE 2000 + yy

\* _dt_to_str: dt.strftime("%y%m%d %H:%M")
dt_to_str(dt) ==
    LET ymd == Ord2Ymd((dt \div MinutesPerDay) + 1)
        mod == dt % MinutesPerDay
    IN  TwoDigits(ymd[1] % 100) \o TwoDigits(ymd[2]) \o TwoDigits(ymd[3])
          \o <<" ">> \o TwoDigits(mod \div 60) \o <<":">> \o TwoDigits(mod % 60)

\* The strings "yymmdd HH:MM" that strptime("%y%m%d %H:%M") reads as a date
\* and time of the calendar.
IsTimeStr(s) ==
    /\ Len(s) = 12
    /\ \A i \in {1, 2, 3, 4, 5, 6, 8, 9, 11, 12} : s[i] \in DigitChars
    /\ s[7] = " "
    /\ s[10] = ":"
    /\ TwoDigitVal(s, 3) \in 1..12
    /\ TwoDigitVal(s, 5) \in 1..DaysInMonth(YearOfYY(TwoDigitVal(s, 1)), TwoDigitVal(s, 3))
    /\ TwoDigitVal(s, 8) \in 0..23
    /\ TwoDigitVal(s, 11) \in 0..59

\* _str_to_dt: datetime.strptime(yymmddhhmm, "%y%m%d %H:%M"), on such a string
str_to_dt(s) ==
    DateTime(YearOfYY(TwoDigitVal(s, 1)), TwoDigitVal(s, 3), TwoDigitVal(s, 5),
             TwoDigitVal(s, 8), TwoDigitVal(s, 11))

\* _now_str, with the reading of datetime.now() as its argument
now_str(t) == dt_to_str(t)

\* _today_str: _now_str()[:6]
today_str(t) == SubSeq(now_str(t), 1, 6)

\* _prev_midnight_str
prev_midnight_str(t) == today_str(t) \o <<" ", "0", "0", ":", "0", "0">>

\* A faulty _next_midnight_str: the midnight that begins the day
next_midnight_is_start(yymmdd) == yymmdd \o <<" ", "0", "0", ":", "0", "0">>

\* _next_midnight_str
next_midnight_str(yymmdd) == yymmdd \o <<" ", "2", "3", ":", "5", "9">>

(***************************************************************************)
(* Strings and lists.                                                      *)
(***************************************************************************)
\* None, which is no str: a str has one-character elements only
None == <<"None">>

\* The characters str.strip() removes that a line of a hand-edited file can
\* carry (the line end that readlines() keeps is not part of a model line).
Whitespace == {" ", "\t"}

RECURSIVE lstrip(_)
lstrip(s) ==
    IF s # <<>> /\ Head(s) \in Whitespace THEN lstrip(Tail(s)) ELSE s

RECURSIVE rstrip(_)
rstrip(s) ==
    IF s # <<>> /\ s[Len(s)] \in Whitespace
    THEN rstrip(SubSeq(s, 1, Len(s) - 1)) ELSE s

\* str.strip
strip(s) == rstrip(lstrip(s))

\* map(str.strip, lines)
StripAll(lines) == [i \in 1..Len(lines) |-> strip(lines[i])]

\* filter(None, lines): the lines that are not the empty string
RECURSIVE FilterNonEmpty(_)
FilterNonEmpty(lines) ==
    IF lines = <<>> THEN <<>>
    ELSE IF Head(lines) = <<>> THEN FilterNonEmpty(Tail(lines))
    ELSE <<Head(lines)>> \o FilterNonEmpty(Tail(lines))

\* reversed(seq)
Reversed(seq) == [i \in 1..Len(seq) |-> seq[Len(seq) + 1 - i]]

\* "%d" of an integer
RECURSIVE NatStr(_)
NatStr(n) ==
    IF n < 10 THEN <<Digits[n + 1]>> ELSE NatStr(n \div 10) \o <<Digits[(n % 10) + 1]>>

IntStr(n) == IF n < 0 THEN <<"-">> \o NatStr(-n) ELSE NatStr(n)

\* str(timedelta) of a whole number of minutes: "[D day[s], ]H:MM:SS", where
\* the days are the floor of the quotient and the rest is never negative
timedelta_str(delta) ==
    LET days == delta \div MinutesPerDay
        rest == delta % MinutesPerDay
        hms  == NatStr(rest \div 60) \o <<":">> \o TwoDigits(rest % 60) \o <<":", "0", "0">>
    IN  IF days = 0 THEN hms
        ELSE IntStr(days) \o <<" day">>
               \o (IF days \in {1, -1} THEN <<>> ELSE <<"s">>) \o <<", ">> \o hms

(***************************************************************************)
(* Constants of the program.                                               *)
(***************************************************************************)
\* _MIN_DELTA = datetime.timedelta(minutes=5)
MIN_DELTA == 5

\* _REPORT_DELIMITER = "----------"
REPORT_DELIMITER == <<"-", "-", "-", "-", "-", "-", "-", "-", "-", "-">>

\* A faulty _get_time_brackets: every entry but the first is paired with the
\* one before it
sliding_brackets(seq) == [i \in 1..(Len(seq) - 1) |-> <<seq[i], seq[i + 1]>>]

(***************************************************************************)
(* Interpret time entries.                                                 *)
(***************************************************************************)
\* _get_time_brackets: zip(seq[0::2], seq[1::2])
get_time_brackets(seq) == [i \in 1..(Len(seq) \div 2) |-> <<seq[2 * i - 1], seq[2 * i]>>]

\* _is_clocked_in
is_clocked_in(entries) == Len(entries) % 2 = 1

RECURSIVE Sum(_)
Sum(deltas) == IF deltas = <<>> THEN 0 ELSE Head(deltas) + Sum(Tail(deltas))

\* A faulty _get_cumulative_time: the time from the last entry to now is
\* counted for a clock that is out too
cumulative_time_to_now(entries, t) ==
    LET times == [i \in 1..Len(entries) |-> str_to_dt(entries[i])]
    IN  Sum([i \in 1..(Len(times) \div 2) |-> times[2 * i] - times[2 * i - 1]])
           + (IF entries = <<>> THEN 0 ELSE t - times[Len(times)])

\* _get_cumulative_time, t the reading of the clock its _now_str() makes
get_cumulative_time(entries, t) ==
    LET withNow  == Append(entries, now_str(t))
        brackets == get_time_brackets([i \in 1..Len(withNow) |-> str_to_dt(withNow[i])])
    IN  Sum([i \in 1..Len(brackets) |-> brackets[i][2] - brackets[i][1]])

\* _generate_report, as the lines of the text it returns: the text ends with
\* two line ends, so an empty line follows the last line of the report
generate_report(entries, t) ==
    IF entries = <<>> THEN << <<"No entries found.">>, <<>> >>
    ELSE LET cumulative_time == get_cumulative_time(entries, t)
             virtual_clock_out == str_to_dt(entries[1]) + cumulative_time
         IN  << (IF is_clocked_in(entries)
                 THEN <<"state: clocked IN as of ">>
                 ELSE <<"state: clocked OUT as of ">>) \o entries[Len(entries)] \o <<".">>,
                <<"initial clock in: ">> \o entries[1],
                <<"cumulative time: ">> \o timedelta_str(cumulative_time),
                <<"virtual clock out: ">> \o dt_to_str(virtual_clock_out),
                <<>> >>

(***************************************************************************)
(* Read and write time entries.  `files` is one data directory: a function *)
(* from the stems of its files ("yymmdd" of "yymmdd.txt") to their lines.  *)
(***************************************************************************)
\* _is_not_report_delimiter
is_not_report_delimiter(line) == line # REPORT_DELIMITER

\* it.takewhile(_is_not_report_delimiter, lines)
RECURSIVE TakeWhileNotDelimiter(_)
TakeWhileNotDelimiter(lines) ==
    IF lines = <<>> \/ ~is_not_report_delimiter(Head(lines)) THEN <<>>
    ELSE <<Head(lines)>> \o TakeWhileNotDelimiter(Tail(lines))

\* A faulty _read_data_file: the lines are not stripped
read_unstripped(files, stem) ==
    IF stem \notin DOMAIN files THEN <<>>
    ELSE TakeWhileNotDelimiter(FilterNonEmpty(files[stem]))

\* _read_data_file
read_data_file(files, stem) ==
    IF stem \notin DOMAIN files THEN <<>>
    ELSE TakeWhileNotDelimiter(FilterNonEmpty(StripAll(files[stem])))

\* filename.unlink()
Unlink(files, stem) == [s \in (DOMAIN files) \ {stem} |-> files[s]]

\* filename.open("w") and file.write: the whole content is replaced
WriteText(files, stem, lines) ==
    [s \in (DOMAIN files) \cup {stem} |-> IF s = stem THEN lines ELSE files[s]]

\* A faulty _overwrite_data_file: no delimiter between entries and report
overwrite_no_delimiter(files, entries, stem, t) ==
    IF entries = <<>>
    THEN (IF stem \in DOMAIN files THEN Unlink(files, stem) ELSE files)
    ELSE WriteText(files, stem, entries \o generate_report(entries, t))

\* A faulty _overwrite_data_file: a file is written for the empty list too
overwrite_keeps_empty(files, entries, stem, t) ==
    WriteText(files, stem, entries \o <<REPORT_DELIMITER>> \o generate_report(entries, t))

\* _overwrite_data_file, t the reading of the clock its report makes
overwrite_data_file(files, entries, stem, t) ==
    IF entries = <<>>
    THEN (IF stem \in DOMAIN files THEN Unlink(files, stem) ELSE files)
    ELSE WriteText(files, stem,
                   entries \o <<REPORT_DELIMITER>> \o generate_report(entries, t))

(***************************************************************************)
(* Find clock in and clock out times.                                      *)
(***************************************************************************)
\* list(data_dir.iterdir()): pathlib yields the children in arbitrary order,
\* so a listing is any arrangement of the files the directory holds
Listings(files) ==
    LET stems == DOMAIN files
    IN  {p \in [1..Cardinality(stems) -> stems] :
            \A i, j \in 1..Cardinality(stems) : p[i] = p[j] => i = j}

\* The first entry list of `order` that is not empty, with its stem
RECURSIVE first_with_entries(_, _)
first_with_entries(files, order) ==
    IF order = <<>> THEN [yymmdd |-> None, entries |-> <<>>]
    ELSE IF read_data_file(files, Head(order)) = <<>>
    THEN first_with_entries(files, Tail(order))
    ELSE [yymmdd |-> Head(order), entries |-> read_data_file(files, Head(order))]

\* _find_latest_entries, listing being what data_dir.iterdir() yielded
find_latest_entries(files, listing) == first_with_entries(files, Reversed(listing))

\* The rest of _find_latest_clock_in, given the latest entries
if_clocked_in(latest) ==
    IF is_clocked_in(latest.entries) THEN latest
    ELSE [yymmdd |-> None, entries |-> <<>>]

\* _find_latest_clock_in
find_latest_clock_in(files, listing) == if_clocked_in(find_latest_entries(files, listing))

(***************************************************************************)
(* Clock in and out.                                                       *)
(*                                                                         *)
(* Every call of _now_str() or _today_str() reads the wall clock anew.  A  *)
(* handler takes the readings it makes as a record `r`, one field for each *)
(* place of the source that reads the clock: Steady(t) is the record of a  *)
(* call during which the clock shows the minute t throughout.              *)
(*                                                                         *)
(* A handler is split where it binds a value it uses again (the latest     *)
(* clock in, the entries): the rest of the handler is an operator that     *)
(* takes the value as a parameter.                                         *)
(***************************************************************************)
Steady(t) ==
    [today246 |-> t, now247 |-> t, today249 |-> t, report249 |-> t,
     today261 |-> t, report267 |-> t, midnight268 |-> t, now269 |-> t,
     today271 |-> t, report271 |-> t, report283 |-> t]

\* A faulty _clip_last_time_delta_if_short: a delta of _MIN_DELTA is short
clip_if_short_or_equal(entries, beg_time, end_time) ==
    IF end_time - beg_time <= MIN_DELTA
    THEN SubSeq(entries, 1, Len(entries) - 2)
    ELSE entries

\* The rest of _clip_last_time_delta_if_short, given the two times
clip_if_short(entries, beg_time, end_time) ==
    IF end_time - beg_time < MIN_DELTA
    THEN SubSeq(entries, 1, Len(entries) - 2)
    ELSE entries

\* A faulty _clip_last_time_delta_if_short: nothing is removed
clip_nothing(entries) == entries

\* _clip_last_time_delta_if_short, as the list it leaves
clip_last_time_delta_if_short(entries) ==
    IF Len(entries) < 2 THEN entries
    ELSE clip_if_short(entries, str_to_dt(entries[Len(entries) - 1]),
                       str_to_dt(entries[Len(entries)]))

\* entries.append(x) and _clip_last_time_delta_if_short(entries)
append_and_clip(entries, x) == clip_last_time_delta_if_short(Append(entries, x))

\* A faulty end of clock_out: no _clip_last_time_delta_if_short
clock_out_today_unclipped(files, entries, r) ==
    [raised |-> "",
     files  |-> overwrite_data_file(files, Append(entries, now_str(r.now269)),
                                    today_str(r.today271), r.report271)]

\* clock_out, lines 269 to 271: the clock out is appended to the entries of
\* today and today's file is overwritten
clock_out_today(files, entries, r) ==
    [raised |-> "",
     files  |-> overwrite_data_file(files, append_and_clip(entries, now_str(r.now269)),
                                    today_str(r.today271), r.report271)]

\* clock_out, lines 261 to 271, given the latest clock in.  The RuntimeError
\* of line 264 needs entries without a file, which _find_latest_entries
\* never returns.
clock_out_from(files, found, r) ==
    IF found.yymmdd # today_str(r.today261)
    THEN clock_out_today(
             overwrite_data_file(files,
                                 append_and_clip(found.entries,
                                                 next_midnight_str(found.yymmdd)),
                                 found.yymmdd, r.report267),
             <<prev_midnight_str(r.midnight268)>>, r)
    ELSE clock_out_today(files, found.entries, r)

\* clock_out, lines 257 to 271, given what _find_latest_clock_in returned
clock_out_found(files, found, r) ==
    IF found.entries = <<>>
    THEN [raised |-> "ClockInStateError", files |-> files]
    ELSE clock_out_from(files, found, r)

\* clock_out on one data directory: what it raises ("" when it returns) and
\* the files it leaves
clock_out(files, listing, r) ==
    clock_out_found(files, find_latest_clock_in(files, listing), r)

\* _clock_out_all: clock_out on every data directory, ClockInStateError
\* suppressed; listings[c] is what the iterdir() of directory c yielded
clock_out_all(dirs, listings, r) ==
    [c \in DOMAIN dirs |-> clock_out(dirs[c], listings[c], r).files]

\* clock_in, lines 246 to 249, on the directories _clock_out_all left
clock_in_today(dirs, d, r) ==
    [raised |-> "",
     dirs   |-> [dirs EXCEPT ![d] =
                    overwrite_data_file(
                        dirs[d],
                        append_and_clip(read_data_file(dirs[d], today_str(r.today246)),
                                        now_str(r.now247)),
                        today_str(r.today249), r.report249)]]

\* A faulty clock_in: the other clocks are clocked out before the state of
\* the clock is looked at
clock_in_clocks_out_first(dirs, d, found, listings, r) ==
    IF found.entries # <<>>
    THEN [raised |-> "ClockInStateError", dirs |-> clock_out_all(dirs, listings, r)]
    ELSE clock_in_today(clock_out_all(dirs, listings, r), d, r)

\* clock_in, lines 241 to 249, given what _find_latest_clock_in returned
clock_in_found(dirs, d, found, listings, r) ==
    IF found.entries # <<>>
    THEN [raised |-> "ClockInStateError", dirs |-> dirs]
    ELSE clock_in_today(clock_out_all(dirs, listings, r), d, r)

\* clock_in on data directory d: what it raises and the directories it leaves
clock_in(dirs, d, listing, listings, r) ==
    clock_in_found(dirs, d, find_latest_clock_in(dirs[d], listing), listings, r)

\* A faulty loop of print_history: an open day is closed at the time of the
\* history
RECURSIVE touch_up_closes(_, _, _)
touch_up_closes(files, listing, t) ==
    IF listing = <<>> THEN files
    ELSE touch_up_closes(
            overwrite_data_file(
               files,
               IF is_clocked_in(read_data_file(files, Head(listing)))
               THEN Append(read_data_file(files, Head(listing)), now_str(t))
               ELSE read_data_file(files, Head(listing)),
               Head(listing), t),
            Tail(listing), t)

\* The loop of print_history over the files of one directory: each file
\* iterdir() yielded is read and rewritten (or removed when it has no entry)
RECURSIVE touch_up(_, _, _)
touch_up(files, listing, t) ==
    IF listing = <<>> THEN files
    ELSE touch_up(overwrite_data_file(files, read_data_file(files, Head(listing)),
                                      Head(listing), t),
                  Tail(listing), t)

\* print_history, as the directories it leaves (the history goes to stdout).
\* The files of a directory are distinct paths and iterdir() has listed them
\* all before the first is rewritten, so the order of the listing does not
\* change what is left: one listing stands for all.
print_history(dirs, r) ==
    [c \in DOMAIN dirs |->
        touch_up(dirs[c], CHOOSE listing \in Listings(dirs[c]) : TRUE, r.report283)]

\* The outcome of clock_out on directory d as an outcome on all directories
in_dir(dirs, d, out) == [raised |-> out.raised, dirs |-> [dirs EXCEPT ![d] = out.files]]

\* toggle_clock, lines 293 and 294, given the outcome of its clock_in
toggle_clock_after(dirs, d, tried, listing2, r) ==
    IF tried.raised = "ClockInStateError"
    THEN in_dir(dirs, d, clock_out(dirs[d], listing2, r))
    ELSE tried

\* toggle_clock of the script whose _DATA_DIR is d, up to its first input():
\* clock_in, or clock_out when that raised ClockInStateError
toggle_clock(dirs, d, listing, listings, listing2, r) ==
    toggle_clock_after(dirs, d, clock_in(dirs, d, listing, listings, r), listing2, r)

(***************************************************************************)
(* Multiple time clocks.                                                   *)
(***************************************************************************)
\* _iter_data_dirs: one data directory "<stem>_data" for every script
\* "<stem>.py" beside the module; a clock is named by the stem
Clocks == {"timeclock", "project"}

\* What iterdir() can yield for each of the directories
AllListings(dirs) ==
    {ls \in [DOMAIN dirs -> UNION {Listings(dirs[c]) : c \in DOMAIN dirs}] :
        \A c \in DOMAIN dirs : ls[c] \in Listings(dirs[c])}

(***************************************************************************)
(* The state machine: the data directories, the wall clock and the last    *)
(* call with its outcome.                                                  *)
(***************************************************************************)
\* Calls made in a run of the model
MaxCalls == 4

\* Minutes the user takes to press enter at the prompt of toggle_clock
MaxWait == 1

\* The days of the model, counted from FirstDay: a day and the next
Days == {0, 1}

\* 2024-02-28 00:00: the days of the model end on a leap day
FirstDay == DateTime(2024, 2, 28, 0, 0)

\* The minutes of a day at which the model makes calls: just after midnight
\* (00:04, 00:05) and just before (23:54, 23:55), so that calls are less
\* than, exactly and more than MIN_DELTA from each other and from the 00:00
\* and 23:59 of a midnight split
Minutes == {4, 5, 1434, 1435}

Times == {FirstDay + day * MinutesPerDay + m : day \in Days, m \in Minutes}

EmptyDir == [s \in {} |-> <<>>]

VARIABLES
    fs,     \* fs[c]: the data directory of clock c
    now,    \* the wall clock at the last call
    calls,  \* the number of calls made
    last    \* the last call, see Called

vars == <<fs, now, calls, last>>

\* No call yet
NoCall ==
    [op |-> "none", clock |-> "none", at |-> 0, raised |-> "", had |-> <<>>,
     held |-> {}, again |-> FALSE, arg |-> <<>>, result |-> <<>>]

Init ==
    /\ fs = [c \in Clocks |-> EmptyDir]
    /\ now = FirstDay
    /\ calls = 0
    /\ last = NoCall

\* The entries the file of clock d for the day of t holds
Today(dirs, d, t) == read_data_file(dirs[d], today_str(t))

\* The stems of the files of a directory that hold entries
Held(files) == {stem \in DOMAIN files : read_data_file(files, stem) # <<>>}

\* A call of `op` on clock d at time t, whose outcome is res, returns or
\* raises at time th.  `last` keeps the call: its name, its clock, its time,
\* what it raised, the entries the clock's file of that day held before it,
\* the files of the clock that held entries before it, and whether it
\* follows, with nothing between, a call of the same name on the same clock
\* that returned.
Called(op, d, t, th, res, had) ==
    /\ fs' = res.dirs
    /\ now' = th
    /\ calls' = calls + 1
    /\ last' = [op |-> op, clock |-> d, at |-> t, raised |-> res.raised, had |-> had,
                held |-> (IF d \in Clocks THEN Held(fs[d]) ELSE {}),
                again |-> (last.op = op /\ last.clock = d /\ last.raised = ""),
                arg |-> <<>>, result |-> <<>>]

\* clock_in(data_dir) at time t
ClockIn(d, t) ==
    /\ calls < MaxCalls
    /\ t >= now
    /\ \E listing \in Listings(fs[d]), listings \in AllListings(fs) :
          Called("clock_in", d, t, t,
                 clock_in(fs, d, listing, listings, Steady(t)),
                 Today(fs, d, t))

\* clock_out(data_dir) at time t
ClockOut(d, t) ==
    /\ calls < MaxCalls
    /\ t >= now
    /\ \E listing \in Listings(fs[d]) :
          Called("clock_out", d, t, t,
                 in_dir(fs, d, clock_out(fs[d], listing, Steady(t))),
                 Today(fs, d, t))

\* print_history() at time t
PrintHistory(t) ==
    /\ calls < MaxCalls
    /\ t >= now
    /\ Called("print_history", "none", t, t,
              [raised |-> "", dirs |-> print_history(fs, Steady(t))], <<>>)

\* The end of toggle_clock, given the outcome of its transition: a
\* ClockInStateError of the clock_out ends the run, or else print_history
\* follows once the user has pressed enter, at time th
ToggleEnd(d, t, tried) ==
    IF tried.raised # ""
    THEN Called("toggle_clock", d, t, t, tried, Today(fs, d, t))
    ELSE \E th \in Times :
            /\ t <= th
            /\ th <= t + MaxWait
            /\ Called("toggle_clock", d, t, th,
                      [raised |-> "", dirs |-> print_history(tried.dirs, Steady(th))],
                      Today(fs, d, t))

\* toggle_clock() of the script of clock d at time t
Toggle(d, t) ==
    /\ calls < MaxCalls
    /\ t >= now
    /\ \E listing, listing2 \in Listings(fs[d]), listings \in AllListings(fs) :
          ToggleEnd(d, t, toggle_clock(fs, d, listing, listings, listing2, Steady(t)))

Next ==
    \/ \E d \in Clocks, t \in Times : ClockIn(d, t)
    \/ \E d \in Clocks, t \in Times : ClockOut(d, t)
    \/ \E t \in Times : PrintHistory(t)
    \/ \E d \in Clocks, t \in Times : Toggle(d, t)

Spec == Init /\ [][Next]_vars

(***************************************************************************)
(* The store and the resolver as functions of a data directory that was    *)
(* edited by hand: the directory of one clock holds up to two day files,   *)
(* and one function is applied to it.                                      *)
(***************************************************************************)
\* Lines of a hand-edited file
MaxLines == 3

StoreClock == "timeclock"

StoreNow == FirstDay + MinutesPerDay + 10 * 60

T1 == dt_to_str(FirstDay + 4)

T2 == dt_to_str(FirstDay + MinutesPerDay + 5)

D1 == today_str(FirstDay)

D2 == today_str(FirstDay + MinutesPerDay)

\* What a line of a hand-edited file can be: an entry, an entry with
\* whitespace around it, an empty line, a line of whitespace, the delimiter,
\* the delimiter with whitespace around it
StoreLines ==
    {T1, <<" ">> \o T1 \o <<"\t">>, <<>>, <<" ">>, REPORT_DELIMITER,
     REPORT_DELIMITER \o <<" ">>}

\* The texts of at most n lines
Texts(n) == UNION {[1..k -> StoreLines] : k \in 0..n}

\* What the file of the second day can be, when there is one: empty, with
\* no entry above its delimiter, or as _overwrite_data_file left it
SecondTexts ==
    {<<>>, <<<<" ">>, REPORT_DELIMITER, T2>>,
     <<T2>> \o <<REPORT_DELIMITER>> \o generate_report(<<T2>>, StoreNow)}

\* The hand-edited directories
StoreDirs ==
    {EmptyDir}
    \cup {[s \in {D1} |-> text] : text \in Texts(MaxLines)}
    \cup {[s \in {D2} |-> text] : text \in SecondTexts}
    \cup {[s \in {D1, D2} |-> IF s = D1 THEN text1 ELSE text2] :
             text1 \in Texts(MaxLines), text2 \in SecondTexts}

\* The entry lists that are written
StoreEntries == {<<>>, <<T1>>, <<T1, T2>>, <<T2, T1, T1>>}

\* What a hand puts below the delimiter of a file
StoreTails == {<<>>, <<T2>>, <<<<"blah blah blah">>, REPORT_DELIMITER, T1>>}

InitStore ==
    /\ fs \in {[c \in Clocks |-> IF c = StoreClock THEN dir ELSE EmptyDir] :
                  dir \in StoreDirs}
    /\ now = StoreNow
    /\ calls = 0
    /\ last = NoCall

\* One function was applied: its name, its argument, its result and the
\* entries the file it is about held before
Applied(op, had, arg, result) ==
    /\ now' = now
    /\ calls' = calls + 1
    /\ last' = [NoCall EXCEPT !.op = op, !.clock = StoreClock, !.at = now,
                              !.had = had, !.arg = arg, !.result = result]

\* _read_data_file(data_dir / stem)
Read(stem) ==
    /\ calls = 0
    /\ fs' = fs
    /\ Applied("read", <<>>, stem, read_data_file(fs[StoreClock], stem))

\* _overwrite_data_file(entries, data_dir / stem)
Overwrite(stem, entries) ==
    /\ calls = 0
    /\ fs' = [fs EXCEPT ![StoreClock] = overwrite_data_file(@, entries, stem, now)]
    /\ Applied("overwrite", read_data_file(fs[StoreClock], stem), stem, entries)

\* _find_latest_entries(data_dir), iterdir() yielding `listing`
FindLatest ==
    /\ calls = 0
    /\ fs' = fs
    /\ \E listing \in Listings(fs[StoreClock]) :
          Applied("find_latest", <<>>, listing,
                  find_latest_entries(fs[StoreClock], listing))

\* The first place of a set of places of a text, or the place after its
\* last line when the set is empty
FirstOf(places, text) ==
    IF places = {} THEN Len(text) + 1
    ELSE CHOOSE i \in places : \A j \in places : i <= j

\* The place of the first line of a text that is the delimiter as it is
\* written
FirstWritten(text) == FirstOf({i \in 1..Len(text) : text[i] = REPORT_DELIMITER}, text)

\* The place of the first line of a text that is the delimiter once the
\* whitespace around it is gone
FirstStripped(text) ==
    FirstOf({i \in 1..Len(text) : strip(text[i]) = REPORT_DELIMITER}, text)

\* A hand replaces what follows the first delimiter line of a file, the
\* first as written or the first once stripped
Edit(stem, tail) ==
    /\ calls = 0
    /\ stem \in DOMAIN fs[StoreClock]
    /\ \E first \in {FirstWritten(fs[StoreClock][stem]),
                      FirstStripped(fs[StoreClock][stem])} :
          /\ first <= Len(fs[StoreClock][stem])
          /\ SubSeq(fs[StoreClock][stem], 1, first) \o tail # fs[StoreClock][stem]
          /\ fs' = [fs EXCEPT ![StoreClock][stem] = SubSeq(@, 1, first) \o tail]
    /\ Applied("edit", read_data_file(fs[StoreClock], stem), stem, tail)

NextStore ==
    \/ \E stem \in {D1, D2} : Read(stem)
    \/ \E stem \in {D1, D2}, entries \in StoreEntries : Overwrite(stem, entries)
    \/ FindLatest
    \/ \E stem \in {D1, D2}, tail \in StoreTails : Edit(stem, tail)

SpecStore == InitStore /\ [][NextStore]_vars

(***************************************************************************)
(* The short-interval rule as a function of an entry list: a list of       *)
(* times around a midnight is drawn, a time is appended to it and          *)
(* _clip_last_time_delta_if_short is applied.                              *)
(***************************************************************************)
\* Entries of a list before the append
MaxLen == 3

\* 23:54, 23:55 and 23:59 of the first day, 00:00, 00:04 and 00:05 of the
\* second: 23:59 and 00:00 are what _next_midnight_str and
\* _prev_midnight_str make
ClipMinutes == {1434, 1435, 1439, 1440, 1444, 1445}

ClipTimes == {FirstDay + m : m \in ClipMinutes}

\* The entries of a list of times
Entries(times) == [i \in 1..Len(times) |-> dt_to_str(times[i])]

InitClip ==
    /\ fs = [c \in Clocks |-> EmptyDir]
    /\ now = FirstDay
    /\ calls = 0
    /\ \E k \in 0..MaxLen : \E ts \in [1..k -> ClipTimes] :
          last = [NoCall EXCEPT !.arg = ts]

\* entries.append(_dt_to_str(t)) and _clip_last_time_delta_if_short(entries),
\* on the entries of the times last.arg: `arg` becomes the times of the list
\* with t appended, `had` the list and `result` what is left of it
AppendAndClip(t) ==
    /\ calls = 0
    /\ fs' = fs
    /\ Applied("append", Append(Entries(last.arg), dt_to_str(t)),
               Append(last.arg, t),
               append_and_clip(Entries(last.arg), dt_to_str(t)))

NextClip == \E t \in ClipTimes : AppendAndClip(t)

SpecClip == InitClip /\ [][NextClip]_vars

(***************************************************************************)
(* The rewrite of a day file, the step print_history takes on every file:  *)
(* the file is read and its entries are written back, with the report of   *)
(* the time of the rewrite.  A day file written by hand or by the program  *)
(* is rewritten, and rewritten again later.                                *)
(***************************************************************************)
\* Rewrites of a run
MaxRewrites == 2

\* Entries of a day file before its first rewrite
MaxEntries == 4

\* 00:04, 00:05 and 23:55 of the first day, 00:05 of the second
RewriteTimes ==
    {FirstDay + 4, FirstDay + 5, FirstDay + 1435, FirstDay + MinutesPerDay + 5}

\* The entry lists of a day file: the times of a day in any order, as a
\* hand may leave them
RewriteEntries ==
    UNION {[1..k -> {dt_to_str(t) : t \in RewriteTimes \ {FirstDay + MinutesPerDay + 5}}] :
              k \in 0..MaxEntries}

\* A day file as a hand wrote it (entries alone, or with an empty line and a
\* stale report) or as _overwrite_data_file wrote it at 00:05
RewriteTexts(entries) ==
    {entries,
     <<<<>>>> \o entries \o <<REPORT_DELIMITER, <<"blah blah blah">>>>}
    \cup (IF entries = <<>> THEN {}
          ELSE {entries \o <<REPORT_DELIMITER>> \o generate_report(entries, FirstDay + 5)})

InitRewrite ==
    /\ \E entries \in RewriteEntries : \E text \in RewriteTexts(entries) :
          fs = [c \in Clocks |-> IF c = StoreClock THEN [s \in {D1} |-> text] ELSE EmptyDir]
    /\ now = FirstDay
    /\ calls = 0
    /\ last = NoCall

\* entries = _read_data_file(data_file); _overwrite_data_file(entries,
\* data_file), at time t
Rewrite(stem, t) ==
    /\ calls < MaxRewrites
    /\ t >= now
    /\ fs' = [fs EXCEPT ![StoreClock] =
                 overwrite_data_file(@, read_data_file(@, stem), stem, t)]
    /\ now' = t
    /\ calls' = calls + 1
    /\ last' = [NoCall EXCEPT !.op = "rewrite", !.clock = StoreClock, !.at = t,
                              !.had = read_data_file(fs[StoreClock], stem),
                              !.arg = stem, !.again = (last.op = "rewrite")]

NextRewrite == \E t \in RewriteTimes : Rewrite(D1, t)

SpecRewrite == InitRewrite /\ [][NextRewrite]_vars

(***************************************************************************)
(* The cumulative time of an entry list.  The entries are drawn as times   *)
(* and handed to the function as the strings the program stores.           *)
(***************************************************************************)
\* 00:04 and 23:55 of February 28th, 00:05 of February 29th, 00:00 of March
\* 1st, 2024
DurationTimes ==
    {FirstDay + 4, FirstDay + 1435, FirstDay + MinutesPerDay + 5,
     FirstDay + 2 * MinutesPerDay}

InitCumulative ==
    /\ fs = [c \in Clocks |-> EmptyDir]
    /\ now = FirstDay
    /\ calls = 0
    /\ \E k \in 0..MaxEntries : \E times \in [1..k -> DurationTimes] :
          last = [NoCall EXCEPT !.arg = times]

\* _get_cumulative_time(entries) at time t; had is the list the caller holds
\* after the call
Cumulative(t) ==
    /\ calls = 0
    /\ fs' = fs
    /\ now' = t
    /\ calls' = calls + 1
    /\ last' = [last EXCEPT !.op = "cumulative", !.at = t,
                            !.had = Entries(last.arg),
                            !.result = <<get_cumulative_time(Entries(last.arg), t)>>]

NextCumulative == \E t \in DurationTimes : Cumulative(t)

SpecCumulative == InitCumulative /\ [][NextCumulative]_vars

(***************************************************************************)
(* The codec of the timestamps: a date and time of the calendar is         *)
(* rendered by _dt_to_str, and the string is parsed by _str_to_dt.         *)
(***************************************************************************)
\* The first and last years strptime's "%y" reads, the years next to them,
\* the years at the turn of the century and a leap year
CodecYears == {1968, 1969, 1999, 2000, 2024, 2068, 2069}

CodecMonths == {1, 2, 3, 12}

CodecDays == {1, 28, 29, 31}

CodecHours == {0, 9, 23}

CodecMinutes == {0, 5, 59}

InitCodec ==
    /\ fs = [c \in Clocks |-> EmptyDir]
    /\ calls = 0
    /\ \E y \in CodecYears, m \in CodecMonths, d \in CodecDays,
          H \in CodecHours, M \in CodecMinutes :
          /\ d <= DaysInMonth(y, m)
          /\ now = DateTime(y, m, d, H, M)
          /\ last = [NoCall EXCEPT !.arg = <<y, m, d, H, M>>]

\* _dt_to_str(dt)
Render ==
    /\ calls = 0
    /\ calls' = 1
    /\ last' = [last EXCEPT !.op = "render", !.at = now, !.had = dt_to_str(now)]
    /\ UNCHANGED <<fs, now>>

\* _str_to_dt(yymmddhhmm) of the string rendered
Parse ==
    /\ calls = 1
    /\ calls' = 2
    /\ last' = [last EXCEPT !.op = "parse", !.result = <<str_to_dt(last.had)>>]
    /\ UNCHANGED <<fs, now>>

NextCodec == Render \/ Parse

SpecCodec == InitCodec /\ [][NextCodec]_vars

(***************************************************************************)
(* One call on data directories that earlier runs and the hand of the user *)
(* left: day files of up to three days, well-formed, in the states a       *)
(* transition or a history has to deal with.                               *)
(***************************************************************************)
\* The day before the first day of the calls
D0 == today_str(FirstDay - MinutesPerDay)

\* A day file as _overwrite_data_file wrote it at the start of the first day
Written(entries) ==
    entries \o <<REPORT_DELIMITER>> \o generate_report(entries, FirstDay)

\* The entry of minute m of the day-th day after the first
EntryAt(day, m) == dt_to_str(FirstDay + day * MinutesPerDay + m)

\* A directory of the files given, as the function from stems to texts
DirOf(stems, texts) == [s \in stems |-> texts[s]]

KeptDirs ==
    {EmptyDir,
     \* clocked in on the first day
     DirOf({D1}, [s \in {D1} |-> Written(<<EntryAt(0, 4)>>)]),
     \* clocked out on the first day
     DirOf({D1}, [s \in {D1} |-> Written(<<EntryAt(0, 4), EntryAt(0, 1434)>>)]),
     \* clocked in on the first day, a closed day before it
     DirOf({D0, D1}, [s \in {D0, D1} |->
        IF s = D0 THEN Written(<<EntryAt(-1, 4), EntryAt(-1, 1434)>>)
        ELSE Written(<<EntryAt(0, 4), EntryAt(0, 1400), EntryAt(0, 1434)>>)]),
     \* an open day before a closed first day, as a hand can leave them
     DirOf({D0, D1}, [s \in {D0, D1} |->
        IF s = D0 THEN Written(<<EntryAt(-1, 4)>>)
        ELSE Written(<<EntryAt(0, 4), EntryAt(0, 1434)>>)]),
     \* clocked in the day before, the file of the first day emptied by hand
     DirOf({D0, D1}, [s \in {D0, D1} |->
        IF s = D0 THEN Written(<<EntryAt(-1, 1435)>>) ELSE <<>>]),
     \* written by hand: an empty line, entries with whitespace around them,
     \* no report
     DirOf({D1}, [s \in {D1} |->
        <<<<>>, <<" ">> \o EntryAt(0, 4) \o <<"\t">>, EntryAt(0, 1434), <<" ">>>>]),
     \* clocked in on the second day, the first day closed
     DirOf({D1, D2}, [s \in {D1, D2} |->
        IF s = D1 THEN Written(<<EntryAt(0, 4), EntryAt(0, 1434)>>)
        ELSE Written(<<EntryAt(1, 4)>>)])}

\* The directories as a run finds them, and the one call the run makes
InitOnce ==
    /\ fs \in [Clocks -> KeptDirs]
    /\ now = FirstDay
    /\ calls = MaxCalls - 1
    /\ last = NoCall

SpecOnce == InitOnce /\ [][Next]_vars

(***************************************************************************)
(* The transitions over three days: clock_in and clock_out calls from      *)
(* empty data directories, in the morning and in the evening of each day.  *)
(***************************************************************************)
\* 00:04 and 23:54 of February 28th, of February 29th and of March 1st, 2024
ThreeDayTimes ==
    {FirstDay + day * MinutesPerDay + m : day \in {0, 1, 2}, m \in {4, 1434}}

NextThreeDays ==
    \/ \E d \in Clocks, t \in ThreeDayTimes : ClockIn(d, t)
    \/ \E d \in Clocks, t \in ThreeDayTimes : ClockOut(d, t)

SpecThreeDays == Init /\ [][NextThreeDays]_vars

(***************************************************************************)
(* The transitions under a wall clock that moves on while a call runs:     *)
(* every _today_str() and _now_str() of a call reads datetime.now() anew,  *)
(* so a later read of one call can give a later minute, or the next day.   *)
(***************************************************************************)
\* Minutes the wall clock moves on during a call
MaxDrift == 1

\* The reads of the clock in the order a call makes them: clock_out's (lines
\* 261 to 271, also run by _clock_out_all within clock_in), then clock_in's
\* (lines 246 to 249), then print_history's.  The reads after the k-th give
\* th, the reads up to it give t.
ReadAt(k, t, th) ==
    [today261    |-> IF k < 1 THEN th ELSE t,
     report267   |-> IF k < 2 THEN th ELSE t,
     midnight268 |-> IF k < 3 THEN th ELSE t,
     now269      |-> IF k < 4 THEN th ELSE t,
     today271    |-> IF k < 5 THEN th ELSE t,
     report271   |-> IF k < 6 THEN th ELSE t,
     today246    |-> IF k < 7 THEN th ELSE t,
     now247      |-> IF k < 8 THEN th ELSE t,
     today249    |-> IF k < 9 THEN th ELSE t,
     report249   |-> IF k < 10 THEN th ELSE t,
     report283   |-> IF k < 11 THEN th ELSE t]

\* 23:54 and 23:59 of the first day, 00:05 and 23:59 of the second
DriftTimes ==
    {FirstDay + 1434, FirstDay + 1439, FirstDay + MinutesPerDay + 5,
     FirstDay + MinutesPerDay + 1439}

\* clock_in(data_dir) begun at time t and ended at time th
ClockInDrift(d, t, th) ==
    /\ calls < MaxCalls
    /\ t >= now
    /\ \E k \in 0..11, listing \in Listings(fs[d]), listings \in AllListings(fs) :
          Called("clock_in", d, t, th,
                 clock_in(fs, d, listing, listings, ReadAt(k, t, th)),
                 Today(fs, d, t))

\* clock_out(data_dir) begun at time t and ended at time th
ClockOutDrift(d, t, th) ==
    /\ calls < MaxCalls
    /\ t >= now
    /\ \E k \in 0..11, listing \in Listings(fs[d]) :
          Called("clock_out", d, t, th,
                 in_dir(fs, d, clock_out(fs[d], listing, ReadAt(k, t, th))),
                 Today(fs, d, t))

NextDrift ==
    \/ \E d \in Clocks, t \in DriftTimes : \E th \in {t, t + MaxDrift} :
          ClockInDrift(d, t, th)
    \/ \E d \in Clocks, t \in DriftTimes : \E th \in {t, t + MaxDrift} :
          ClockOutDrift(d, t, th)

SpecDrift == Init /\ [][NextDrift]_vars

(***************************************************************************)
(* The words of the properties.                                            *)
(***************************************************************************)
\* The midnight that begins the day a stem names
StemDay(stem) == str_to_dt(stem \o <<" ", "0", "0", ":", "0", "0">>)

\* The stem of greatest date among the files of a directory that hold
\* entries
LatestStem(files) ==
    CHOOSE stem \in Held(files) : \A other \in Held(files) : StemDay(other) <= StemDay(stem)

\* A clock is IN when its latest non-empty day file has an odd number of
\* entries, and OUT otherwise
IsIn(files) ==
    Held(files) # {} /\ Len(read_data_file(files, LatestStem(files))) % 2 = 1

\* What the resolver reports, whatever the listing yields
ReportsIn(files) ==
    \A listing \in Listings(files) : find_latest_clock_in(files, listing).entries # <<>>

ReportsOut(files) ==
    \A listing \in Listings(files) : find_latest_clock_in(files, listing).entries = <<>>

\* The last entry of a list as a time
LastTime(entries) == str_to_dt(entries[Len(entries)])

(***************************************************************************)
(* C1.  For every clock and every reachable state, clock_in called while   *)
(* the clock is IN raises ClockInStateError, clock_out called while the    *)
(* clock is OUT raises ClockInStateError, and the second of two clock_in   *)
(* calls in a row on a clock raises it, whatever the day of the call.      *)
(***************************************************************************)
C1_WrongStateRaises ==
    [][\A d \in Clocks :
          /\ (last'.op = "clock_in" /\ last'.clock = d /\ IsIn(fs[d]))
                => last'.raised = "ClockInStateError"
          /\ (last'.op = "clock_out" /\ last'.clock = d /\ ~IsIn(fs[d]))
                => last'.raised = "ClockInStateError"
          /\ (last'.op = "clock_in" /\ last'.clock = d /\ last'.again)
                => last'.raised = "ClockInStateError"]_vars

(***************************************************************************)
(* C2.  From empty data directories and under a wall clock that never goes *)
(* back, a clock_in that returns leaves the resolver reporting IN, a       *)
(* clock_out that returns leaves it reporting OUT, and a toggle_clock that *)
(* returns leaves it reporting the other state than before.                *)
(***************************************************************************)
C2_ToggleFlips ==
    [][\A d \in Clocks :
          (last'.clock = d /\ last'.raised = "")
             => /\ last'.op = "clock_in" => ReportsIn(fs'[d])
                /\ last'.op = "clock_out" => ReportsOut(fs'[d])
                /\ last'.op = "toggle_clock"
                      => \/ ReportsOut(fs[d]) /\ ReportsIn(fs'[d])
                         \/ ReportsIn(fs[d]) /\ ReportsOut(fs'[d])]_vars

(***************************************************************************)
(* C3.  Whenever clock_in returns on a clock b while another clock a is    *)
(* IN, a is OUT after the call and the latest day file of a holds the      *)
(* entries it held with one entry appended.                                *)
(***************************************************************************)
C3_Exclusive ==
    [][\A a, b \in Clocks :
          (a # b /\ last'.op = "clock_in" /\ last'.clock = b /\ last'.raised = ""
                 /\ IsIn(fs[a]))
             => /\ ~IsIn(fs'[a])
                /\ LET before == read_data_file(fs[a], LatestStem(fs[a]))
                       after  == read_data_file(fs'[a], LatestStem(fs[a]))
                   IN  /\ Len(after) = Len(before) + 1
                       /\ SubSeq(after, 1, Len(before)) = before]_vars

\* C3, its first half alone: whenever clock_in returns on a clock b while
\* another clock a is IN, a is OUT after the call.
C3_OtherClockIsOut ==
    [][\A a, b \in Clocks :
          (a # b /\ last'.op = "clock_in" /\ last'.clock = b /\ last'.raised = ""
                 /\ IsIn(fs[a]))
             => ~IsIn(fs'[a])]_vars

(***************************************************************************)
(* C4.  A clock_in on a day D1 and then, with no call between, a clock_out *)
(* on the next day D2.                                                     *)
(***************************************************************************)
\* The step is a clock_out on clock d on the day after the clock_in on d
\* that the call before it was
OutTheDayAfterIn(d) ==
    /\ last.op = "clock_in" /\ last.clock = d /\ last.raised = ""
    /\ last'.op = "clock_out" /\ last'.clock = d
    /\ StemDay(today_str(last'.at)) = StemDay(today_str(last.at)) + MinutesPerDay

\* After the step the file of D1 ends with "D1 23:59" and the file of D2
\* holds "D2 00:00" and the time of the clock_out
IsSplit(d) ==
    LET D1st   == today_str(last.at)
        D2nd   == today_str(last'.at)
        first  == read_data_file(fs'[d], D1st)
        second == read_data_file(fs'[d], D2nd)
    IN  /\ last'.raised = ""
        /\ D1st \in DOMAIN fs'[d]
        /\ first # <<>>
        /\ first[Len(first)] = dt_to_str(StemDay(D1st) + 23 * 60 + 59)
        /\ D2nd \in DOMAIN fs'[d]
        /\ second = <<dt_to_str(StemDay(D2nd)), dt_to_str(last'.at)>>

C5_CollapseRule ==
    last.op = "append"
       => LET times == last.arg
              n     == Len(times)
          IN  IF n >= 2 /\ times[n] - times[n - 1] < 5
              THEN last.result = SubSeq(last.had, 1, n - 2)
              ELSE last.result = last.had

\* A list of four entries lost its last pair and no more, although the
\* pair before it is a short one too
C5_Witness ==
    /\ last.op = "append"
    /\ Len(last.arg) = 4
    /\ last.arg[2] - last.arg[1] < 5 /\ last.arg[2] - last.arg[1] >= 0
    /\ last.arg[4] - last.arg[3] < 5 /\ last.arg[4] - last.arg[3] >= 0
    /\ last.result = SubSeq(last.had, 1, 2)

(***************************************************************************)
(* C6.  Two toggles of a clock, one after the other with no call between,  *)
(* on the same day and less than 5 minutes apart.                          *)
(***************************************************************************)
\* The step is a toggle of the clock that the call before it toggled, on
\* the same day and less than 5 minutes later, and both return
SecondToggle(d) ==
    /\ last.op = "toggle_clock" /\ last.clock = d /\ last.raised = ""
    /\ last'.op = "toggle_clock" /\ last'.clock = d /\ last'.raised = ""
    /\ today_str(last'.at) = today_str(last.at)
    /\ last'.at - last.at < 5

\* After the step the file of the day holds what it held before the first
\* toggle, and is absent if it was absent
IsRestored(d) ==
    /\ Today(fs', d, last'.at) = last.had
    /\ today_str(last'.at) \in DOMAIN fs'[d] <=> last.had # <<>>

C7_Resolver ==
    last.op = "find_latest"
       => LET files == fs[StoreClock]
          IN  IF Held(files) = {}
              THEN last.result = [yymmdd |-> None, entries |-> <<>>]
              ELSE last.result = [yymmdd  |-> LatestStem(files),
                                  entries |-> read_data_file(files, LatestStem(files))]

(***************************************************************************)
(* C8.  For every entry list that is not empty, and whatever the file held *)
(* before, reading a file after the list was written to it returns the     *)
(* list: the same entries in the same order, and nothing of the delimiter  *)
(* or the report.                                                          *)
(***************************************************************************)
C8_RoundTrip ==
    (last.op = "overwrite" /\ last.result # <<>>)
       => read_data_file(fs[StoreClock], last.arg) = last.result

\* Three entries were written over a file that held another entry list
C8_Witness ==
    /\ last.op = "overwrite"
    /\ Len(last.result) = 3
    /\ last.had # <<>> /\ last.had # last.result
    /\ read_data_file(fs[StoreClock], last.arg) = last.result

(***************************************************************************)
(* C9.  From empty data directories and after any calls of clock_in,       *)
(* clock_out, toggle_clock and print_history, every day file that exists   *)
(* holds an entry; writing the empty list removes a file that exists,      *)
(* leaves an absent file absent and touches no other file; reading a file  *)
(* that does not exist returns the empty list.                             *)
(***************************************************************************)
C9_Lifecycle ==
    \A c \in Clocks :
       /\ \A stem \in DOMAIN fs[c] : read_data_file(fs[c], stem) # <<>>
       /\ \A t \in Times :
             LET stem  == today_str(t)
                 wrote == overwrite_data_file(fs[c], <<>>, stem, now)
             IN  /\ DOMAIN wrote = (DOMAIN fs[c]) \ {stem}
                 /\ \A other \in DOMAIN wrote : wrote[other] = fs[c][other]
                 /\ stem \notin DOMAIN fs[c] => read_data_file(fs[c], stem) = <<>>

\* A clock_out made the only entry of the day a short session: the file of
\* the day is gone and the directory is empty
C9_Witness ==
    /\ last.op = "clock_out" /\ last.raised = ""
    /\ Len(last.had) = 1
    /\ fs[last.clock] = EmptyDir

(***************************************************************************)
(* C10.  What _read_data_file returns of a file, and that it never reads   *)
(* below the first delimiter line.                                         *)
(***************************************************************************)
NotBlank(line) == strip(line) # <<>>

NotEmpty(line) == line # <<>>

\* The file of `stem` reads as it did before the hand wrote below its first
\* delimiter line
ReadsAsBefore == last.op = "edit" => read_data_file(fs[StoreClock], last.arg) = last.had

\* C10 as it is written: read returns, in order, the lines that are not
\* blank and come before the first line equal to "----------"; and two
\* files that differ only below their first delimiter line read the same.
C10_ReadStops ==
    /\ (last.op = "read" /\ last.arg \in DOMAIN fs[StoreClock])
          => LET text == fs[StoreClock][last.arg]
             IN  last.result = SelectSeq(SubSeq(text, 1, FirstWritten(text) - 1), NotBlank)
    /\ ReadsAsBefore

\* C10, amended: read returns, in order and without the whitespace around
\* them, the lines that are not blank and come before the first line that is
\* "----------" once the whitespace around it is gone; and two files that
\* differ only below that line read the same.
C10_ReadStopsStripped ==
    /\ (last.op = "read" /\ last.arg \in DOMAIN fs[StoreClock])
          => LET text     == fs[StoreClock][last.arg]
                 stripped == [i \in 1..Len(text) |-> strip(text[i])]
             IN  last.result =
                    SelectSeq(SubSeq(stripped, 1, FirstStripped(text) - 1), NotEmpty)
    /\ ReadsAsBefore

\* A file of three lines was read: an entry with whitespace around it, the
\* delimiter with whitespace after it, an entry; the read returned the first
\* entry alone, without its whitespace
C10_Witness ==
    /\ last.op = "read"
    /\ last.arg \in DOMAIN fs[StoreClock]
    /\ fs[StoreClock][last.arg] = <<<<" ">> \o T1 \o <<"\t">>, REPORT_DELIMITER \o <<" ">>, T1>>
    /\ last.result = <<T1>>

(***************************************************************************)
(* C11.  For every day file whose entry list is not empty and of even      *)
(* length, the rewrite of the file (its entries read and written back)     *)
(* gives the same lines, entries, delimiter and report, at every time: once *)
(* the file was rewritten, a rewrite at any time leaves it as it is.       *)
(***************************************************************************)
C11_RewriteIsStable ==
    (last.op = "rewrite" /\ last.had # <<>> /\ Len(last.had) % 2 = 0)
       => \A t \in RewriteTimes :
             overwrite_data_file(fs[StoreClock],
                                 read_data_file(fs[StoreClock], last.arg),
                                 last.arg, t) = fs[StoreClock]

\* A file of four entries was rewritten a second time, at a later time than
\* the first, and its report is the one a rewrite at 00:05 writes
C11_Witness ==
    /\ last.op = "rewrite" /\ last.again
    /\ Len(last.had) = 4
    /\ last.at = FirstDay + MinutesPerDay + 5
    /\ fs[StoreClock][last.arg] =
          last.had \o <<REPORT_DELIMITER>> \o generate_report(last.had, FirstDay + 5)

\* The sum of out - in over the pairs (1st, 2nd), (3rd, 4th), ... of a list
\* of times
RECURSIVE PairSum(_)
PairSum(times) ==
    IF Len(times) < 2 THEN 0
    ELSE (times[2] - times[1]) + PairSum(Tail(Tail(times)))

(***************************************************************************)
(* C12.  The cumulative time of an entry list is the sum of out - in over  *)
(* its pairs (1st, 2nd), (3rd, 4th), ...: for a list of even length it is  *)
(* the same at every time, for a list of odd length the time from the last *)
(* entry to now is added, for the empty list it is zero; the list the      *)
(* caller holds is as it was.                                              *)
(***************************************************************************)
C12_Cumulative ==
    last.op = "cumulative"
       => /\ last.result[1] =
                PairSum(last.arg)
                   + (IF Len(last.arg) % 2 = 1 THEN last.at - last.arg[Len(last.arg)] ELSE 0)
          /\ Len(last.arg) % 2 = 0
                => \A t \in DurationTimes :
                      get_cumulative_time(last.had, t) = last.result[1]
          /\ last.arg = <<>> => last.result[1] = 0
          /\ last.had = Entries(last.arg)

\* Three entries, the second pair open: in 00:04, out 23:55, in 00:05 of the
\* next day, read at 00:00 of the day after
C12_Witness ==
    /\ last.op = "cumulative"
    /\ last.arg = <<FirstDay + 4, FirstDay + 1435, FirstDay + MinutesPerDay + 5>>
    /\ last.at = FirstDay + 2 * MinutesPerDay
    /\ last.result = <<1431 + 1435>>

\* The years strptime's "%y" gives back: 1969 to 2068
InYearWindow(y) == y \in 1969..2068

(***************************************************************************)
(* C13.  A timestamp of minute precision whose year is in the window of    *)
(* the two-digit years is rendered as the twelve characters "yymmdd HH:MM" *)
(* (two digits for each field), and the string parses to the timestamp.    *)
(***************************************************************************)
C13_CodecRoundTrip ==
    (last.op = "parse" /\ InYearWindow(last.arg[1]))
       => /\ last.result = <<last.at>>
          /\ last.had = TwoDigits(last.arg[1] % 100) \o TwoDigits(last.arg[2])
                           \o TwoDigits(last.arg[3]) \o <<" ">>
                           \o TwoDigits(last.arg[4]) \o <<":">> \o TwoDigits(last.arg[5])
          /\ IsTimeStr(last.had)

\* The last minute of the leap day of the year 2000 was rendered and parsed
C13_Witness ==
    /\ last.op = "parse"
    /\ last.arg = <<2000, 2, 29, 23, 59>>
    /\ last.had = <<"0", "0", "0", "2", "2", "9", " ", "2", "3", ":", "5", "9">>
    /\ last.result = <<now>>

(***************************************************************************)
(* C14.  From empty data directories, after any sequence of calls at most  *)
(* one clock is IN, and after a clock_in that returns on a clock b the     *)
(* only clock that is IN is b.                                             *)
(***************************************************************************)
C14_AtMostOneIn ==
    /\ Cardinality({d \in Clocks : IsIn(fs[d])}) <= 1
    /\ (last.op = "clock_in" /\ last.raised = "")
          => {d \in Clocks : IsIn(fs[d])} = {last.clock}

(***************************************************************************)
(* C15.  A clock_in that raises ClockInStateError because the clock is     *)
(* clocked in, and a clock_out that raises it because the clock is clocked *)
(* out, leave every day file of every clock as it was, in existence and in *)
(* text: a rejected clock_in clocks no other clock out.                    *)
(***************************************************************************)
C15_RejectedChangesNothing ==
    [][(last'.op \in {"clock_in", "clock_out"} /\ last'.raised = "ClockInStateError")
          => fs' = fs]_vars

\* A clock_in was rejected while the other clock was clocked in, and the
\* other clock is clocked in still
C15_Witness ==
    /\ last.op = "clock_in" /\ last.raised = "ClockInStateError"
    /\ \E a \in Clocks \ {last.clock} : ReportsIn(fs[a])
    /\ IsIn(fs[last.clock])

\* What _find_latest_entries can return for a directory, over the orders in
\* which iterdir() can yield its files
LatestEntries(files) == {find_latest_entries(files, listing) : listing \in Listings(files)}

(***************************************************************************)
(* C16.  print_history on data directories of well-formed day files leaves *)
(* every day file reading to the entries it read to before: the files with *)
(* entries are there with their report written anew, the files without are *)
(* gone.  No clock changes between IN and OUT, and _find_latest_entries    *)
(* returns what it returned.                                               *)
(***************************************************************************)
C16_HistoryPreserves ==
    [][last'.op = "print_history"
          => \A c \in Clocks :
                /\ \A stem \in DOMAIN fs[c] \cup DOMAIN fs'[c] :
                      read_data_file(fs'[c], stem) = read_data_file(fs[c], stem)
                /\ DOMAIN fs'[c] = Held(fs[c])
                /\ \A stem \in DOMAIN fs'[c] :
                      fs'[c][stem] =
                         read_data_file(fs[c], stem) \o <<REPORT_DELIMITER>>
                            \o generate_report(read_data_file(fs[c], stem), last'.at)
                /\ IsIn(fs'[c]) <=> IsIn(fs[c])
                /\ ReportsIn(fs'[c]) <=> ReportsIn(fs[c])
                /\ LatestEntries(fs'[c]) = LatestEntries(fs[c])]_vars

\* After a print_history on the second day one clock is left with the open
\* file of the day before alone, the file emptied by hand being gone, and
\* the other with the hand-written file, now with its report
C16_Witness ==
    /\ last.op = "print_history"
    /\ last.at = FirstDay + MinutesPerDay + 5
    /\ DOMAIN fs["timeclock"] = {D0}
    /\ fs["timeclock"][D0] =
          <<EntryAt(-1, 1435)>> \o <<REPORT_DELIMITER>>
             \o generate_report(<<EntryAt(-1, 1435)>>, last.at)
    /\ fs["project"] =
          DirOf({D1}, [s \in {D1} |->
             <<EntryAt(0, 4), EntryAt(0, 1434)>> \o <<REPORT_DELIMITER>>
                \o generate_report(<<EntryAt(0, 4), EntryAt(0, 1434)>>, last.at)])

\* The files of a directory that hold entries, other than the latest of
\* them, hold an even number of entries
OlderDaysClosed(files) ==
    \A stem, later \in Held(files) :
       StemDay(stem) < StemDay(later) => Len(read_data_file(files, stem)) % 2 = 0

(***************************************************************************)
(* C17.  From empty data directories and under a wall clock that never     *)
(* goes back, after any sequence of calls every day file of a clock other  *)
(* than its latest non-empty one holds an even number of entries: only the *)
(* newest day can be open.                                                 *)
(***************************************************************************)
C17_OnlyNewestOpen == \A c \in Clocks : OlderDaysClosed(fs[c])

\* Every entry of a list but the first is _MIN_DELTA minutes or more after
\* the entry before it
Spaced(entries) ==
    \A i \in 1..(Len(entries) - 1) :
       str_to_dt(entries[i + 1]) - str_to_dt(entries[i]) >= MIN_DELTA

(***************************************************************************)
(* C18.  From empty data directories and under a wall clock that never     *)
(* goes back, after any sequence of calls the entries of every day file    *)
(* are in the order of time and every two consecutive entries are 5        *)
(* minutes or more apart, the 23:59 and 00:00 entries of a midnight split  *)
(* included.                                                               *)
(***************************************************************************)
C18_MinimumSpacing ==
    \A c \in Clocks : \A stem \in DOMAIN fs[c] : Spaced(read_data_file(fs[c], stem))

\* A clock was clocked out across the midnight with both synthetic entries
\* at 5 minutes from their neighbours: in at 23:54, out at 00:05
C18_Witness ==
    \E c \in Clocks :
       /\ last.op = "clock_out" /\ last.clock = c /\ last.raised = ""
       /\ read_data_file(fs[c], D1) = <<EntryAt(0, 1434), EntryAt(0, 1439)>>
       /\ read_data_file(fs[c], D2) = <<EntryAt(1, 0), EntryAt(1, 5)>>

\* Every entry of every day file carries the date of the file
DatesAgree ==
    \A c \in Clocks : \A stem \in DOMAIN fs[c] :
       \A i \in 1..Len(read_data_file(fs[c], stem)) :
          SubSeq(read_data_file(fs[c], stem)[i], 1, 6) = stem

\* No entry is in two day files of a clock
NoEntryTwice ==
    \A c \in Clocks : \A stem, other \in DOMAIN fs[c] :
       stem # other
          => \A i \in 1..Len(read_data_file(fs[c], stem)) :
                \A j \in 1..Len(read_data_file(fs[c], other)) :
                   read_data_file(fs[c], stem)[i] # read_data_file(fs[c], other)[j]

(***************************************************************************)
(* C19.  From empty data directories, after any sequence of clock_in and   *)
(* clock_out calls every entry of the day file of a date carries that date *)
(* and no entry is in two day files, also when the wall clock moves on, to *)
(* the next minute or past midnight, between the reads of the date and of  *)
(* the time within one call.                                               *)
(***************************************************************************)
C19_DatesAgree == DatesAgree /\ NoEntryTwice

\* The stems of the day files of a directory that hold an odd number of
\* entries
OpenStems(files) == {stem \in Held(files) : Len(read_data_file(files, stem)) % 2 = 1}

\* The day files a clock_out may change: today's and, when the latest day
\* that is clocked in is not today, the file of that day
OutFrame(files, today) ==
    {today}
    \cup {stem \in OpenStems(files) :
             \A other \in OpenStems(files) : StemDay(other) <= StemDay(stem)}

\* The day file stem of clock c reads to the same entries before and after
\* the step
SameEntries(c, stem) == read_data_file(fs'[c], stem) = read_data_file(fs[c], stem)

====
